---- MODULE Spec2Model ----
(***************************************************************************)
(* lightplay: a Standard MIDI File parser feeding a light-following        *)
(* playback scheduler (src/src/main.c).  The file is a flat byte sequence  *)
(* read through a cursor; the parser, the stable sort and the playback     *)
(* loop with its wait routine and input matcher are actions translated     *)
(* from the C functions of the same names.                                 *)
(***************************************************************************)
EXTENDS Integers, Sequences, FiniteSets, TLC

(* ---------------------------------------------------------------------- *)
(* Program constants                                                      *)
(* ---------------------------------------------------------------------- *)
MIDI_NOTE_OFF == 128
MIDI_NOTE_ON == 144
MIDI_PROGRAM_CHANGE == 192
MIDI_CHANNEL_KEY_PRESSURE == 208
MIDI_SYSEX_EVENT_F0 == 240
MIDI_SYSEX_EVENT_F7 == 247
MIDI_META_EVENT == 255
MIDI_META_SET_TEMPO == 81
DEFAULT_MIDIEVENTS_SIZE == 1024
MAX_ACTIVE_NOTES == 128
DEFAULT_TEMPO == 500000

(* ---------------------------------------------------------------------- *)
(* Bounds of the model                                                    *)
(* ---------------------------------------------------------------------- *)
\* messages per track in the files of the parser specification
ParseMaxMsgs == 3
\* messages per track in the files of the playback specification
PlayMaxMsgs == 2
\* input messages the keyboard may send during one playback
MaxInputs == 2
\* device, poll or clock failures that may be injected in one run
MaxFaults == 1
\* tv_nsec of the monotonic clock when the program starts (tv_sec is 0)
ClockStart == 999000000

(* ---------------------------------------------------------------------- *)
(* C arithmetic                                                           *)
(* ---------------------------------------------------------------------- *)
\* a & 0xf0
HighNibble(b) == b - (b % 16)

\* A 32-bit word is held as the int with its bit pattern, so an unsigned
\* value of 2^31 or more is held as that value minus 2^32.
INT_MAX == 2147483647
INT_MIN == -2147483647 - 1

\* a + b on 32-bit words, wrapping
AddInt(a, b) ==
    IF b >= 0 /\ a > INT_MAX - b THEN (a - INT_MAX - 1) + (b - INT_MAX - 1)
    ELSE IF b < 0 /\ a < INT_MIN - b THEN (a + INT_MAX + 1) + (b + INT_MAX + 1)
    ELSE a + b

\* a - b on 32-bit words, wrapping
SubInt(a, b) == IF b = INT_MIN THEN AddInt(AddInt(a, INT_MAX), 1) ELSE AddInt(a, -b)

\* a * b on 32-bit words, wrapping, for b >= 0 (by doubling)
RECURSIVE MulInt(_, _)
MulInt(a, b) ==
    IF b = 0 THEN 0
    ELSE CHOOSE p \in {AddInt(AddInt(h, h), IF b % 2 = 1 THEN a ELSE 0) :
                          h \in {MulInt(a, b \div 2)}} : TRUE

\* a < b on uint32_t values
ULess(a, b) == IF (a >= 0) = (b >= 0) THEN a < b ELSE a >= 0

Min(a, b) == IF a <= b THEN a ELSE b

(* ---------------------------------------------------------------------- *)
(* Byte strings and file construction                                     *)
(* ---------------------------------------------------------------------- *)
\* "MThd" and "MTrk" as bytes
MThd == <<77, 84, 104, 100>>
MTrk == <<77, 84, 114, 107>>
\* a chunk magic that is neither
XFIH == <<88, 70, 73, 72>>

BE16(n) == <<(n \div 256) % 256, n % 256>>
BE32(n) == <<(n \div 16777216) % 256, (n \div 65536) % 256, (n \div 256) % 256, n % 256>>

HeaderBytes(len, format, ntracks, tpqn) ==
    MThd \o BE32(len) \o BE16(format) \o BE16(ntracks) \o BE16(tpqn)

ChunkBytes(magic, body) == magic \o BE32(Len(body)) \o body

RECURSIVE Concat(_)
Concat(ss) == IF ss = <<>> THEN <<>> ELSE Head(ss) \o Concat(Tail(ss))

\* all sequences of at most n elements of S
RECURSIVE SeqsUpTo(_, _)
SeqsUpTo(S, n) ==
    IF n = 0 THEN {<<>>}
    ELSE LET shorter == SeqsUpTo(S, n - 1)
         IN  shorter \cup {<<x>> \o s : x \in S, s \in {t \in shorter : Len(t) = n - 1}}

(* ---------------------------------------------------------------------- *)
(* State                                                                  *)
(* ---------------------------------------------------------------------- *)
VARIABLES
    file,              \* the bytes of the MIDI file
    fpos,              \* the stream position of midifile (0-based offset)
    dry_run,           \* the -n flag
    dev,               \* the MIDI device handle: "none", "open" or "closed"
    pc,                \* where the program is
    ret,               \* the value do_sequencing returns
    track_count,       \* parse_standard_midi_file: track_count
    ticks_pqn,         \* do_sequencing: ticks_pqn
    tracks_parsed,     \* parse_standard_midi_file: the loop counter i
    track_bytes,       \* parse_next_track: track_bytes
    current_byte,      \* parse_next_track: current_byte
    at_ticks,          \* parse_next_track: at_ticks
    prev_event_type,   \* parse_next_track: prev_event_type
    events,            \* me_buffer.events[0 .. event_count-1]
    allocated_size,    \* me_buffer.allocated_size
    calls,             \* history: one entry per decoded track event
    true_ticks,        \* history: sum of all delta-times read in this track
    parsed,            \* history: the event buffer as it was before the sort
    i,                       \* playback_midievents: i
    lighted_keys_index,      \* playback_midievents: lighted_keys_index
    next_lighted_keys_index, \* playback_midievents: next_lighted_keys_index
    current_at_ticks,        \* playback_midievents: current_at_ticks
    tempo_microseconds_pqn,  \* playback_midievents: tempo_microseconds_pqn
    notes_waiting,           \* the notes n with notes_waiting[n] != 0
    wait_microseconds,       \* playback_midievents: wait_microseconds
    bytes_to_read,           \* wait_for_event: bytes_to_read
    raw_midievent,           \* wait_for_event: raw_midievent[3]
    nextev_time,             \* wait_for_event: nextev_time
    clock,             \* CLOCK_MONOTONIC, as a struct timespec
    inq,               \* bytes that have arrived and that mio_read has not returned
    wire,              \* bytes of a message the keyboard is sending that have not arrived
    inputs_sent,       \* number of input messages sent so far
    faults,            \* number of failures injected so far
    out,               \* history: every mio_write, in order
    wait_entry         \* history: the clock and the pending set at wait entry

parseVars == <<fpos, pc, ret, track_count, ticks_pqn, tracks_parsed,
               track_bytes, current_byte, at_ticks, prev_event_type, events,
               allocated_size, calls, true_ticks, parsed>>

playVars == <<i, lighted_keys_index, next_lighted_keys_index, current_at_ticks,
              tempo_microseconds_pqn, notes_waiting, wait_microseconds,
              bytes_to_read, raw_midievent, nextev_time, out, wait_entry>>

envVars == <<clock, inq, wire, inputs_sent, faults>>

vars == <<dev, file, dry_run, parseVars, playVars, envVars>>

(* ---------------------------------------------------------------------- *)
(* Byte reader (stdio on midifile)                                        *)
(* ---------------------------------------------------------------------- *)
\* whether n more bytes can be read at offset p
CanRead(p, n) == p + n <= Len(file)

ByteAt(p) == file[p + 1]

BytesAt(p, n) == [k \in 1..n |-> file[p + k]]

ReadBE16(p) == ByteAt(p) * 256 + ByteAt(p + 1)

\* a big-endian uint32_t, as a 32-bit word
ReadBE32(p) ==
    (IF ByteAt(p) >= 128 THEN ByteAt(p) - 256 ELSE ByteAt(p)) * 16777216
        + ByteAt(p + 1) * 65536 + ByteAt(p + 2) * 256 + ByteAt(p + 3)

\* fseek(midifile, n, SEEK_CUR) for a uint32_t n.  Every position at or
\* beyond the end of the file behaves alike (all reads fail there, and the
\* program seeks back only after a read that succeeded), so such positions
\* are all held as Len(file).
Seek(p, n) == IF n < 0 \/ n > Len(file) - p THEN Len(file) ELSE p + n

\* isspace() in the C locale
IsSpace(b) == b \in {9, 10, 11, 12, 13, 32}

RECURSIVE SkipSpace(_)
SkipSpace(p) == IF CanRead(p, 1) /\ IsSpace(ByteAt(p)) THEN SkipSpace(p + 1) ELSE p

RECURSIVE ScanWord(_, _)
ScanWord(p, n) ==
    IF n > 0 /\ CanRead(p, 1) /\ ~IsSpace(ByteAt(p))
    THEN <<ByteAt(p)>> \o ScanWord(p + 1, n - 1)
    ELSE <<>>

\* fscanf(midifile, "%4s", buf): skips white space, then stores up to four
\* bytes that are not white space; n is the number of conversions (EOF = -1)
Fscanf4s(p) ==
    LET q == SkipSpace(p)
        w == ScanWord(q, 4)
    IN  [n |-> IF w = <<>> THEN -1 ELSE 1, str |-> w, pos |-> q + Len(w)]

\* the C string held by a buffer: the bytes before the first NUL
RECURSIVE CStr(_)
CStr(w) == IF w = <<>> \/ Head(w) = 0 THEN <<>> ELSE <<Head(w)>> \o CStr(Tail(w))

\* strcmp(buf, magic) == 0
StrEq(w, magic) == CStr(w) = magic

(* ---------------------------------------------------------------------- *)
(* VLQ decoder                                                            *)
(* ---------------------------------------------------------------------- *)
\* the for loop of get_next_variable_length_quantity from iteration n on
\* VlqLoop without the mask 0x7f on the byte
RECURSIVE VlqLoop_NoMask(_, _, _, _)
VlqLoop_NoMask(n, value, p, cb) ==
    IF n >= 4 THEN [ok |-> TRUE, value |-> value, pos |-> p, cb |-> cb]
    ELSE IF ~CanRead(p, 1) THEN [ok |-> FALSE, value |-> -1, pos |-> p, cb |-> cb]
    ELSE LET vlq_byte == ByteAt(p)
             v == (value * 128) + vlq_byte
         IN  IF vlq_byte < 128
             THEN [ok |-> TRUE, value |-> v, pos |-> p + 1, cb |-> cb + 1]
             ELSE VlqLoop_NoMask(n + 1, v, p + 1, cb + 1)

RECURSIVE VlqLoop(_, _, _, _)
VlqLoop(n, value, p, cb) ==
    IF n >= 4 THEN [ok |-> TRUE, value |-> value, pos |-> p, cb |-> cb]
    ELSE IF ~CanRead(p, 1) THEN [ok |-> FALSE, value |-> -1, pos |-> p, cb |-> cb]
    ELSE LET vlq_byte == ByteAt(p)
             \* at most 28 bits: the shift cannot overflow the uint32_t
             v == (value * 128) + (vlq_byte % 128)
         IN  IF vlq_byte < 128
             THEN [ok |-> TRUE, value |-> v, pos |-> p + 1, cb |-> cb + 1]
             ELSE VlqLoop(n + 1, v, p + 1, cb + 1)

\* the uint32_t value is returned as an int
get_next_variable_length_quantity(p, cb) == VlqLoop(0, 0, p, cb)

(* ---------------------------------------------------------------------- *)
(* Events                                                                 *)
(* ---------------------------------------------------------------------- *)
\* struct midievent.  u is the union: raw holds its first three bytes, so a
\* tempo-change event holds the low three bytes of its int tempo (a
\* little-endian build).  id is no field of the struct: it is the event's
\* position in parse order, kept to tell equal events apart.
ChannelVoice(ticks, raw, id) ==
    [type |-> "MIDIEVENT_CHANNEL_VOICE", at_ticks |-> ticks, raw |-> raw, id |-> id]

TempoChange(ticks, tempo, id) ==
    [type |-> "MIDIEVENT_TEMPO_CHANGE", at_ticks |-> ticks,
     raw |-> <<tempo % 256, (tempo \div 256) % 256, (tempo \div 65536) % 256>>,
     id |-> id]

\* me.u.tempo_in_microseconds_pqn
TempoOf(me) == me.raw[1] + me.raw[2] * 256 + me.raw[3] * 65536

NoEvent == ChannelVoice(0, <<0, 0, 0>>, 0)

(* ---------------------------------------------------------------------- *)
(* Header parser                                                          *)
(* ---------------------------------------------------------------------- *)
HeaderError == [ret |-> -1, pos |-> 0, track_count |-> 0, ticks_pqn |-> 0]

\* parse_smf_header, called with the stream at offset p
parse_smf_header(p) ==
    LET m == Fscanf4s(p)
        p1 == m.pos
        hdr_length == ReadBE32(p1)
        p2 == p1 + 4
        format == ReadBE16(p2)
        p3 == p2 + 2
        _track_count == ReadBE16(p3)
        p4 == p3 + 2
        _ticks_pqn == ReadBE16(p4)
        p5 == p4 + 2
    IN  IF m.n # 1 THEN HeaderError
        ELSE IF ~StrEq(m.str, MThd) THEN HeaderError
        ELSE IF ~CanRead(p1, 4) THEN HeaderError
        ELSE IF ULess(hdr_length, 6) THEN HeaderError
        ELSE IF ~CanRead(p2, 2) THEN HeaderError
        ELSE IF format # 1 THEN HeaderError
        ELSE IF ~CanRead(p3, 2) THEN HeaderError
        ELSE IF ~CanRead(p4, 2) THEN HeaderError
        ELSE IF _ticks_pqn >= 32768 THEN HeaderError
        ELSE IF _ticks_pqn = 0 THEN HeaderError
        ELSE [ret |-> 0, pos |-> Seek(p5, SubInt(hdr_length, 6)),
              track_count |-> _track_count, ticks_pqn |-> _ticks_pqn]

(* ---------------------------------------------------------------------- *)
(* Track events                                                           *)
(* ---------------------------------------------------------------------- *)
\* what one call of get_next_midi_event leaves behind: its return value,
\* the stream position, *current_byte, *at_ticks, *prev_event_type and
\* *midievent; delta and first are the delta-time and the byte after it,
\* kept for the history
EventResult(r, p, cb, ticks, prev, me, delta, first) ==
    [ret |-> r, pos |-> p, cb |-> cb, at_ticks |-> ticks, prev |-> prev,
     me |-> me, delta |-> delta, first |-> first]

\* *at_ticks += delta_time
AddTicks(ticks, delta_time) == AddInt(ticks, delta_time)

\* *current_byte += n on a uint32_t
AddBytes(cb, n) == AddInt(cb, n)

\* parse_meta_event, entered after the 0xff status
parse_meta_event(p, cb, ticks, prev, delta_time, first) ==
    LET Fail == EventResult(-1, p, cb, ticks, prev, NoEvent, delta_time, first)
    IN  IF ~CanRead(p, 1) THEN Fail
        ELSE
        LET event_type == ByteAt(p)
            len == get_next_variable_length_quantity(p + 1, AddBytes(cb, 1))
        IN  IF ~len.ok \/ len.value < 0 THEN Fail
            ELSE IF event_type # MIDI_META_SET_TEMPO
            THEN EventResult(0, Seek(len.pos, len.value), AddBytes(len.cb, len.value),
                             ticks, prev, NoEvent, delta_time, first)
            ELSE IF len.value # 3 THEN Fail
            ELSE IF ~CanRead(len.pos, 3) THEN Fail
            ELSE
            LET spec == BytesAt(len.pos, 3)
                new_tempo == spec[1] * 65536 + spec[2] * 256 + spec[3]
                t == AddTicks(ticks, delta_time)
            IN  EventResult(1, len.pos + 3, AddBytes(len.cb, 3), t, prev,
                            TempoChange(t, new_tempo, 0), delta_time, first)

\* EffectiveStatus with the running-status branch left out
EffectiveStatus_NoRunning(first, prev) == first

\* lines 506-515: the status the event is decoded with.  prev_event_type
\* is a pointer there, so the first operand of && is always true.
EffectiveStatus(first, prev) == IF first < 128 THEN prev ELSE first

\* lines 535-537: the event is skipped, not stored
IsSkipped(status, skip_bytes) ==
    /\ HighNibble(status) # MIDI_NOTE_OFF
    /\ HighNibble(status) # MIDI_NOTE_ON
    /\ skip_bytes > 0

\* get_next_midi_event, called with the stream at offset p
get_next_midi_event(p, cb, ticks, prev) ==
    LET dt == get_next_variable_length_quantity(p, cb)
    IN  IF ~dt.ok \/ dt.value < 0
        THEN EventResult(-1, p, cb, ticks, prev, NoEvent, 0, 0)
        ELSE IF ~CanRead(dt.pos, 1)
        THEN EventResult(-1, p, cb, ticks, prev, NoEvent, dt.value, 0)
        ELSE
        LET delta_time == dt.value
            first == ByteAt(dt.pos)
            status == EffectiveStatus(first, prev)
            \* the data byte is read again: fseek(-1) and (*current_byte)--
            p1 == IF first < 128 THEN dt.pos ELSE dt.pos + 1
            cb1 == IF first < 128 THEN dt.cb ELSE AddBytes(dt.cb, 1)
            Fail == EventResult(-1, p1, cb1, ticks, status, NoEvent, delta_time, first)
        IN  IF status = MIDI_META_EVENT
            THEN parse_meta_event(p1, cb1, ticks, status, delta_time, first)
            ELSE
            LET sysex == status \in {MIDI_SYSEX_EVENT_F0, MIDI_SYSEX_EVENT_F7}
                len == IF sysex THEN get_next_variable_length_quantity(p1, cb1)
                       ELSE [ok |-> TRUE, value |-> 0, pos |-> p1, cb |-> cb1]
                skip_bytes ==
                    IF sysex THEN len.value
                    ELSE IF HighNibble(status) \in {MIDI_PROGRAM_CHANGE,
                                                    MIDI_CHANNEL_KEY_PRESSURE}
                    THEN 1 ELSE 2
            IN  IF ~len.ok \/ len.value < 0 THEN Fail
                ELSE IF IsSkipped(status, skip_bytes)
                THEN EventResult(0, Seek(len.pos, skip_bytes), AddBytes(len.cb, skip_bytes),
                                 ticks, status, NoEvent, delta_time, first)
                ELSE IF ~CanRead(len.pos, 2) THEN Fail
                ELSE
                LET t == AddTicks(ticks, delta_time)
                    raw == <<status>> \o BytesAt(len.pos, 2)
                IN  EventResult(1, len.pos + 2, AddBytes(len.cb, 2), t, status,
                                ChannelVoice(t, raw, 0), delta_time, first)

(* ---------------------------------------------------------------------- *)
(* Event buffer: the stable sort                                          *)
(* ---------------------------------------------------------------------- *)
\* compare_midievent_positions without its equality case
compare_midievent_positions_NoTie(a, b) ==
    IF a.at_ticks < b.at_ticks THEN -1 ELSE 1

compare_midievent_positions(a, b) ==
    IF a.at_ticks < b.at_ticks THEN -1
    ELSE IF a.at_ticks > b.at_ticks THEN 1 ELSE 0

\* the merge step of mergesort(3): the right element is taken only when
\* the left one compares greater, which is what makes the sort stable
RECURSIVE Merge(_, _)
Merge(l, r) ==
    IF l = <<>> THEN r
    ELSE IF r = <<>> THEN l
    ELSE IF compare_midievent_positions(Head(l), Head(r)) <= 0
    THEN <<Head(l)>> \o Merge(Tail(l), r)
    ELSE <<Head(r)>> \o Merge(l, Tail(r))

RECURSIVE mergesort(_)
mergesort(s) ==
    IF Len(s) <= 1 THEN s
    ELSE LET h == Len(s) \div 2
         IN  Merge(mergesort(SubSeq(s, 1, h)), mergesort(SubSeq(s, h + 1, Len(s))))

(* ---------------------------------------------------------------------- *)
(* Parsing: parse_standard_midi_file and parse_next_track                 *)
(* ---------------------------------------------------------------------- *)
\* do_sequencing returns -1 through its out label
Fail ==
    /\ pc' = "exit"
    /\ ret' = -1

\* main returns ret (line 158): the status a waiting parent sees is its
\* low eight bits
ExitStatus == ret % 256

\* open_mididevice without its test of dry_run
open_mididevice_Always(dry) == "open"

\* open_mididevice: the handle main holds when do_sequencing is called
open_mididevice(dry) == IF dry THEN "none" ELSE "open"

\* close_mididevice: the handle after it
close_mididevice(dry, handle) == IF dry THEN handle ELSE "closed"

\* main after do_sequencing has returned: the device is closed, and the
\* process ends with ExitStatus
CloseDevice ==
    /\ pc = "exit"
    /\ pc' = "done"
    /\ dev' = close_mididevice(dry_run, dev)
    /\ UNCHANGED <<file, dry_run, fpos, ret, track_count, ticks_pqn, tracks_parsed,
                   track_bytes, current_byte, at_ticks, prev_event_type, events,
                   allocated_size, calls, true_ticks, parsed, playVars, envVars>>

\* ParseFail without the test of the parser's result in do_sequencing
ParseFail_Ignored ==
    /\ pc' = "play"
    /\ ret' = -1

\* parse_standard_midi_file returns -1 and do_sequencing leaves through out
ParseFail == Fail

\* parse_standard_midi_file up to its for loop: the header
ParseHeader ==
    /\ pc = "header"
    /\ LET h == parse_smf_header(fpos)
       IN  IF h.ret = -1
           THEN /\ ParseFail
                /\ UNCHANGED <<fpos, track_count, ticks_pqn>>
           ELSE /\ fpos' = h.pos
                /\ track_count' = h.track_count
                /\ ticks_pqn' = h.ticks_pqn
                /\ pc' = IF 0 < h.track_count THEN "chunk" ELSE "sort"
                /\ ret' = 0
    /\ UNCHANGED <<file, dry_run, dev, tracks_parsed, track_bytes, current_byte, at_ticks,
                   prev_event_type, events, allocated_size, calls, true_ticks,
                   parsed, playVars, envVars>>

\* InitialStatus with the register left as the previous track left it
InitialStatus_Kept == prev_event_type

\* line 390: prev_event_type when parse_next_track starts
InitialStatus == 0

\* parse_next_track: one round of the loop that looks for the next MTrk chunk
FindTrack ==
    /\ pc = "chunk"
    /\ LET m == Fscanf4s(fpos)
           track_found == StrEq(m.str, MTrk)
           tb == ReadBE32(m.pos)
       IN  IF m.n # 1 \/ ~CanRead(m.pos, 4)
           THEN /\ ParseFail
                /\ UNCHANGED <<fpos, track_bytes>>
           ELSE /\ track_bytes' = tb
                /\ fpos' = IF track_found THEN m.pos + 4 ELSE Seek(m.pos + 4, tb)
                /\ pc' = IF track_found THEN "events" ELSE "chunk"
                /\ ret' = ret
    /\ prev_event_type' = InitialStatus
    /\ at_ticks' = 0
    /\ current_byte' = 0
    /\ true_ticks' = 0
    /\ UNCHANGED <<file, dry_run, dev, track_count, ticks_pqn, tracks_parsed, events,
                   allocated_size, calls, parsed, playVars, envVars>>

\* a + b for the history of delta-times, which are not negative: the sum,
\* or -1 for every sum above INT_MAX
ExactSum(a, b) == IF a < 0 \/ a > INT_MAX - b THEN -1 ELSE a + b

\* parse_next_track: one round of while (current_byte < track_bytes)
NextEvent ==
    /\ pc = "events"
    /\ ULess(current_byte, track_bytes)
    /\ LET r == get_next_midi_event(fpos, current_byte, at_ticks, prev_event_type)
           me == [r.me EXCEPT !.id = Len(events) + 1]
       IN  IF r.ret = -1
           THEN /\ ParseFail
                /\ UNCHANGED <<fpos, current_byte, at_ticks, prev_event_type, events,
                               allocated_size, calls, true_ticks>>
           ELSE /\ fpos' = r.pos
                /\ current_byte' = r.cb
                /\ at_ticks' = r.at_ticks
                /\ prev_event_type' = r.prev
                /\ true_ticks' = ExactSum(true_ticks, r.delta)
                /\ calls' = Append(calls,
                                   [track |-> tracks_parsed + 1, ret |-> r.ret,
                                    delta |-> r.delta, first |-> r.first,
                                    status |-> r.prev, me |-> me,
                                    start |-> fpos,
                                    true_ticks |-> ExactSum(true_ticks, r.delta)])
                /\ events' = IF r.ret = 1 THEN Append(events, me) ELSE events
                /\ allocated_size' =
                       IF r.ret = 1 /\ Len(events) >= allocated_size
                       THEN allocated_size * 2 ELSE allocated_size
                /\ UNCHANGED <<pc, ret>>
    /\ UNCHANGED <<file, dry_run, dev, track_count, ticks_pqn, tracks_parsed, track_bytes,
                   parsed, playVars, envVars>>

\* parse_next_track returns 0, and the for loop of parse_standard_midi_file
\* goes on to the next track or ends
TrackEnd ==
    /\ pc = "events"
    /\ ~ULess(current_byte, track_bytes)
    /\ tracks_parsed' = tracks_parsed + 1
    /\ pc' = IF tracks_parsed + 1 < track_count THEN "chunk" ELSE "sort"
    /\ UNCHANGED <<file, dry_run, dev, fpos, ret, track_count, ticks_pqn, track_bytes,
                   current_byte, at_ticks, prev_event_type, events, allocated_size,
                   calls, true_ticks, parsed, playVars, envVars>>

\* do_sequencing: the mergesort call before playback
Sort ==
    /\ pc = "sort"
    /\ parsed' = events
    /\ events' = mergesort(events)
    /\ pc' = "play"
    /\ UNCHANGED <<file, dry_run, dev, fpos, ret, track_count, ticks_pqn, tracks_parsed,
                   track_bytes, current_byte, at_ticks, prev_event_type,
                   allocated_size, calls, true_ticks, playVars, envVars>>

(* ---------------------------------------------------------------------- *)
(* The MIDI device and the clock                                          *)
(* ---------------------------------------------------------------------- *)
\* one mio_write of a 3-byte message; n is the number of bytes it accepted
Write(kind, idx, msg, n) == [kind |-> kind, idx |-> idx, msg |-> msg, n |-> n]

\* the byte counts a failing mio_write of 3 bytes may return
ShortCounts == {0, 2}

\* clock_gettime(CLOCK_MONOTONIC, &current_time)
current_time == clock

\* a struct timespec with 0 <= tv_nsec < 10^9, n >= 0 nanoseconds later
AddNanos(ts, n) ==
    LET nsec == ts.tv_nsec + (n % 1000000000)
        sec == ts.tv_sec + (n \div 1000000000)
    IN  IF nsec >= 1000000000
        THEN [tv_sec |-> sec + 1, tv_nsec |-> nsec - 1000000000]
        ELSE [tv_sec |-> sec, tv_nsec |-> nsec]

\* a struct timespec, ms >= 0 milliseconds later
AddMillis(ts, ms) ==
    AddNanos([tv_sec |-> ts.tv_sec + (ms \div 1000), tv_nsec |-> ts.tv_nsec],
             (ms % 1000) * 1000000)

\* lines 801-806: nextev_time from current_time and the wait.  The product
\* 1000 * wait_microseconds is an int and wraps; tv_nsec is a long, and the
\* while loop only carries upwards.
Deadline(now, wait_us) ==
    LET product == MulInt(1000, wait_us)
    IN  IF product >= 0 THEN AddNanos(now, product)
        ELSE [tv_sec |-> now.tv_sec, tv_nsec |-> now.tv_nsec + product]

\* lines 801-806 on a build that forms the product 1000 * wait_microseconds
\* in the width of tv_nsec, a 64-bit long, where it does not wrap
DeadlineWide(now, wait_us) ==
    AddNanos([tv_sec |-> now.tv_sec + (wait_us \div 1000000), tv_nsec |-> now.tv_nsec],
             (wait_us % 1000000) * 1000)

\* the overflow of that product is undefined: a build may give either
\* deadline (they are the same one when the product fits an int)
DeadlineOutcomes(now, wait_us) == {Deadline(now, wait_us), DeadlineWide(now, wait_us)}

\* (a - b) / 1000000 in C (long operands, truncating toward zero), for
\* a a 32-bit value and 0 <= b < 10^9
MillisBetween(a, b) ==
    IF a >= b THEN (a - b) \div 1000000
    ELSE IF a >= 0 THEN -((b - a) \div 1000000)
    ELSE LET m == -(a + 1)
         IN  -((m \div 1000000) + (b \div 1000000)
                + (((m % 1000000) + (b % 1000000) + 1) \div 1000000))

\* lines 810-826: the timeout handed to poll, in milliseconds (-1: none)
PollTimeoutMs(wait_us, next, now) ==
    IF wait_us >= 0
    THEN LET t == 1000 * (next.tv_sec - now.tv_sec)
                  + MillisBetween(next.tv_nsec, now.tv_nsec)
         IN  IF t < 0 THEN 0 ELSE t
    ELSE -1

(* ---------------------------------------------------------------------- *)
(* Scheduler: light-on routine                                            *)
(* ---------------------------------------------------------------------- *)
notes_to_wait_for(waiting) == waiting # {}

LightResult(r, idx, waiting, writes) ==
    [ret |-> r, idx |-> idx, waiting |-> waiting, writes |-> writes]

\* SameBatch with < for <=
SameBatch_Strict(idx, next_event_at_ticks) == events[idx + 1].at_ticks < next_event_at_ticks

\* lines 772: the do-while goes on to the event at idx (0-based)
SameBatch(idx, next_event_at_ticks) == events[idx + 1].at_ticks <= next_event_at_ticks

\* lines 750: the event lights a key
LightsKey(me) == me.raw[1] = MIDI_NOTE_ON

\* the do-while of turn_on_next_lights with me = events[idx]; the write
\* number failAt (counted from 0) accepts only shortN bytes
RECURSIVE LightLoop(_, _, _, _, _, _)
LightLoop(idx, next_event_at_ticks, waiting, writes, failAt, shortN) ==
    LET me == events[idx + 1]
        note == me.raw[2] % 128
        msg == <<me.raw[1], me.raw[2], 1>>
        writing == LightsKey(me) /\ ~dry_run
    IN  IF writing /\ failAt = Len(writes)
        THEN LightResult(-1, idx, waiting, Append(writes, Write("light", idx, msg, shortN)))
        ELSE
        LET w2 == IF LightsKey(me) THEN waiting \cup {note} ELSE waiting
            wr2 == IF writing THEN Append(writes, Write("light", idx, msg, 3)) ELSE writes
        IN  IF idx + 1 >= Len(events) THEN LightResult(0, idx + 1, w2, wr2)
            ELSE IF SameBatch(idx + 1, next_event_at_ticks)
            THEN LightLoop(idx + 1, next_event_at_ticks, w2, wr2, failAt, shortN)
            ELSE LightResult(0, idx + 1, w2, wr2)

turn_on_next_lights(idx, waiting, failAt, shortN) ==
    IF idx >= Len(events) THEN LightResult(0, idx, waiting, <<>>)
    ELSE LightLoop(idx, events[idx + 1].at_ticks, waiting, <<>>, failAt, shortN)

(* ---------------------------------------------------------------------- *)
(* Input matcher                                                          *)
(* ---------------------------------------------------------------------- *)
NotesResult(r, waiting, raw, btr, nread, writes) ==
    [r |-> r, waiting |-> waiting, raw |-> raw, btr |-> btr, nread |-> nread,
     writes |-> writes]

\* lines 883-884: the assembled message is no Note-On or Note-Off
Uninteresting(raw) ==
    HighNibble(raw[1]) # MIDI_NOTE_ON /\ HighNibble(raw[1]) # MIDI_NOTE_OFF

\* wait_for_notes; mio_read returns the next nread unread bytes (0: it
\* fails), and the mirror write accepts wr bytes
wait_for_notes(waiting, raw, btr, nread, wr) ==
    IF ~notes_to_wait_for(waiting) THEN NotesResult(0, waiting, raw, btr, 0, <<>>)
    ELSE IF nread = 0 THEN NotesResult(-1, waiting, raw, btr, 0, <<>>)
    ELSE
    LET raw1 == [k \in 1..3 |->
                    IF k > 3 - btr /\ k <= 3 - btr + nread
                    THEN inq[k - (3 - btr)] ELSE raw[k]]
        btr1 == btr - nread
    IN  IF btr1 > 0 THEN NotesResult(1, waiting, raw1, btr1, nread, <<>>)
        ELSE IF Uninteresting(raw1)
        THEN NotesResult(1, waiting, <<raw1[2], raw1[3], raw1[3]>>, 1, nread, <<>>)
        ELSE IF raw1[1] = MIDI_NOTE_ON
        THEN LET note == raw1[2] % 128
                 raw2 == <<MIDI_NOTE_OFF, raw1[2], raw1[3]>>
                 w2 == waiting \ {note}
             IN  IF wr < 3
                 THEN NotesResult(-1, waiting, raw2, btr1, nread,
                                  <<Write("mirror", -1, raw2, wr)>>)
                 ELSE NotesResult(IF notes_to_wait_for(w2) THEN 1 ELSE 0, w2, raw2, 3,
                                  nread, <<Write("mirror", -1, raw2, 3)>>)
        ELSE NotesResult(IF notes_to_wait_for(waiting) THEN 1 ELSE 0, waiting, raw1, 3,
                         nread, <<>>)

(* ---------------------------------------------------------------------- *)
(* Scheduler: playback_midievents and wait_for_event                      *)
(* ---------------------------------------------------------------------- *)
\* the event at the 0-based buffer index idx
EventAt(idx) == events[idx + 1]

\* WaitBudget with < for <= in the test of lighted_keys_index
WaitBudget_Strict(idx, lighted, cur_ticks, tempo) ==
    IF lighted < idx
    THEN -1
    ELSE MulInt(tempo \div ticks_pqn, SubInt(events[idx + 1].at_ticks, cur_ticks))

\* lines 662-670: the wait before the event at index idx
WaitBudget(idx, lighted, cur_ticks, tempo) ==
    IF lighted <= idx
    THEN -1
    ELSE MulInt(tempo \div ticks_pqn, SubInt(EventAt(idx).at_ticks, cur_ticks))

\* lines 682-683: step 4 writes the event to the device
IsPlayed(me) == me.raw[1] # MIDI_NOTE_ON /\ me.raw[2] # MIDI_NOTE_OFF

\* the failures that may still be injected: none (3 bytes accepted), or a
\* write that accepts fewer
WriteOutcomes == {3} \cup (IF faults < MaxFaults THEN ShortCounts ELSE {})

\* the for loop has ended: playback_midievents returns 0
Finish ==
    /\ pc = "loop"
    /\ i >= Len(events)
    /\ pc' = "exit"
    /\ ret' = 0
    /\ UNCHANGED <<file, dry_run, dev, fpos, track_count, ticks_pqn, tracks_parsed,
                   track_bytes, current_byte, at_ticks, prev_event_type, events,
                   allocated_size, calls, true_ticks, parsed, playVars, envVars>>

\* step 1 (lines 653-658): refill the lights when no note is waited for.
\* The value turn_on_next_lights returns is not looked at.
RefillLights ==
    /\ pc = "loop"
    /\ i < Len(events)
    /\ IF ~notes_to_wait_for(notes_waiting)
       THEN \E failAt \in {-1} \cup (IF faults < MaxFaults THEN 0..(Len(events) - 1) ELSE {}),
               shortN \in ShortCounts :
               LET l == turn_on_next_lights(next_lighted_keys_index, notes_waiting,
                                            failAt, shortN)
               IN  /\ failAt = -1 => shortN = 0
                   /\ failAt >= 0 => l.ret = -1
                   /\ lighted_keys_index' = next_lighted_keys_index
                   /\ next_lighted_keys_index' = l.idx
                   /\ notes_waiting' = l.waiting
                   /\ out' = out \o l.writes
                   /\ faults' = IF failAt >= 0 THEN faults + 1 ELSE faults
       ELSE UNCHANGED <<lighted_keys_index, next_lighted_keys_index, notes_waiting,
                        out, faults>>
    /\ pc' = "budget"
    /\ UNCHANGED <<file, dry_run, dev, fpos, ret, track_count, ticks_pqn, tracks_parsed,
                   track_bytes, current_byte, at_ticks, prev_event_type, events,
                   allocated_size, calls, true_ticks, parsed, i, current_at_ticks,
                   tempo_microseconds_pqn, wait_microseconds, bytes_to_read,
                   raw_midievent, nextev_time, wait_entry, clock, inq, inputs_sent, wire>>

\* step 2 (lines 662-670) and wait_for_event up to its loop (lines 788-807).
\* raw_midievent is a fresh local there; no byte of it is read before
\* wait_for_notes has written it.
EnterWait ==
    /\ pc = "budget"
    /\ LET w == WaitBudget(i, lighted_keys_index, current_at_ticks,
                           tempo_microseconds_pqn)
       IN  /\ wait_microseconds' = w
           /\ wait_entry' = [clock |-> clock, empty |-> notes_waiting = {}]
           /\ IF dry_run
              THEN /\ pc' = "apply"
                   /\ UNCHANGED <<ret, bytes_to_read, raw_midievent, nextev_time, faults>>
              ELSE /\ bytes_to_read' = 3
                   /\ raw_midievent' = <<0, 0, 0>>
                   /\ \/ /\ pc' = "poll"
                         /\ nextev_time' \in IF w >= 0 THEN DeadlineOutcomes(current_time, w)
                                             ELSE {nextev_time}
                         /\ UNCHANGED <<ret, faults>>
                      \/ \* clock_gettime fails
                         /\ w >= 0
                         /\ faults < MaxFaults
                         /\ faults' = faults + 1
                         /\ Fail
                         /\ UNCHANGED nextev_time
    /\ UNCHANGED <<file, dry_run, dev, fpos, track_count, ticks_pqn, tracks_parsed,
                   track_bytes, current_byte, at_ticks, prev_event_type, events,
                   allocated_size, calls, true_ticks, parsed, i, lighted_keys_index,
                   next_lighted_keys_index, current_at_ticks, tempo_microseconds_pqn,
                   notes_waiting, out, clock, inq, inputs_sent, wire>>

\* the timeout of the poll the scheduler is in
CurrentTimeout == PollTimeoutMs(wait_microseconds, nextev_time, current_time)

\* wait loop (lines 809-838): poll returns 0 after the timeout
PollTimeout ==
    /\ pc = "poll"
    /\ CurrentTimeout >= 0
    /\ inq = <<>>
    /\ clock' = AddMillis(clock, CurrentTimeout)
    /\ pc' = "apply"
    /\ UNCHANGED <<file, dry_run, dev, fpos, ret, track_count, ticks_pqn, tracks_parsed,
                   track_bytes, current_byte, at_ticks, prev_event_type, events,
                   allocated_size, calls, true_ticks, parsed, playVars, inq,
                   inputs_sent, wire, faults>>

\* wait loop (lines 809-848): poll reports input, wait_for_notes runs
PollInput ==
    /\ pc = "poll"
    /\ inq # <<>>
    /\ \E nread \in {0, 1, Min(bytes_to_read, Len(inq))}, wr \in WriteOutcomes :
          LET r == wait_for_notes(notes_waiting, raw_midievent, bytes_to_read, nread, wr)
          IN  /\ nread = 0 => faults < MaxFaults /\ wr = 3 /\ r.r = -1
              /\ wr < 3 => r.r = -1
              /\ notes_waiting' = r.waiting
              /\ raw_midievent' = r.raw
              /\ bytes_to_read' = r.btr
              /\ inq' = SubSeq(inq, r.nread + 1, Len(inq))
              /\ out' = out \o r.writes
              /\ faults' = IF r.r = -1 THEN faults + 1 ELSE faults
              /\ IF r.r = -1 THEN Fail
                 ELSE /\ pc' = IF r.r = 0 THEN "apply" ELSE "poll"
                      /\ ret' = ret
    /\ UNCHANGED <<file, dry_run, dev, fpos, track_count, ticks_pqn, tracks_parsed,
                   track_bytes, current_byte, at_ticks, prev_event_type, events,
                   allocated_size, calls, true_ticks, parsed, i, lighted_keys_index,
                   next_lighted_keys_index, current_at_ticks, tempo_microseconds_pqn,
                   wait_microseconds, nextev_time, wait_entry, clock, inputs_sent, wire>>

\* wait loop: clock_gettime (line 811) or poll (line 828) fails
WaitFault ==
    /\ pc = "poll"
    /\ faults < MaxFaults
    /\ faults' = faults + 1
    /\ Fail
    /\ UNCHANGED <<file, dry_run, dev, fpos, track_count, ticks_pqn, tracks_parsed,
                   track_bytes, current_byte, at_ticks, prev_event_type, events,
                   allocated_size, calls, true_ticks, parsed, playVars, clock, inq,
                   inputs_sent, wire>>

\* steps 4 and 5 (lines 677-698)
ApplyEvent ==
    /\ pc = "apply"
    /\ LET me == EventAt(i)
       IN  IF me.type = "MIDIEVENT_TEMPO_CHANGE"
           THEN /\ tempo_microseconds_pqn' = TempoOf(me)
                /\ current_at_ticks' = me.at_ticks
                /\ i' = i + 1
                /\ pc' = "loop"
                /\ UNCHANGED <<ret, out, faults>>
           ELSE IF IsPlayed(me) /\ ~dry_run
           THEN \E wr \in WriteOutcomes :
                   /\ out' = Append(out, Write("play", i, me.raw, wr))
                   /\ IF wr < 3
                      THEN /\ Fail
                           /\ faults' = faults + 1
                           /\ UNCHANGED <<current_at_ticks, i>>
                      ELSE /\ current_at_ticks' = me.at_ticks
                           /\ i' = i + 1
                           /\ pc' = "loop"
                           /\ UNCHANGED <<ret, faults>>
                   /\ UNCHANGED tempo_microseconds_pqn
           ELSE /\ current_at_ticks' = me.at_ticks
                /\ i' = i + 1
                /\ pc' = "loop"
                /\ UNCHANGED <<ret, out, faults, tempo_microseconds_pqn>>
    /\ UNCHANGED <<file, dry_run, dev, fpos, track_count, ticks_pqn, tracks_parsed,
                   track_bytes, current_byte, at_ticks, prev_event_type, events,
                   allocated_size, calls, true_ticks, parsed, lighted_keys_index,
                   next_lighted_keys_index, notes_waiting, wait_microseconds,
                   bytes_to_read, raw_midievent, nextev_time, wait_entry, clock, inq,
                   inputs_sent, wire>>

\* playback_midievents starts (lines 637-643)
StartPlayback ==
    /\ pc = "play"
    /\ notes_waiting' = {}
    /\ current_at_ticks' = 0
    /\ lighted_keys_index' = 0
    /\ next_lighted_keys_index' = 0
    /\ tempo_microseconds_pqn' = DEFAULT_TEMPO
    /\ i' = 0
    /\ pc' = "loop"
    /\ UNCHANGED <<file, dry_run, dev, fpos, ret, track_count, ticks_pqn, tracks_parsed,
                   track_bytes, current_byte, at_ticks, prev_event_type, events,
                   allocated_size, calls, true_ticks, parsed, wait_microseconds,
                   bytes_to_read, raw_midievent, nextev_time, out, wait_entry,
                   envVars>>

(* ---------------------------------------------------------------------- *)
(* The keyboard                                                           *)
(* ---------------------------------------------------------------------- *)
\* the messages the keyboard may send: two channel-1 Note-Ons, a Note-Off
\* and a controller change
InputMsgs == {<<144, 60, 100>>, <<144, 62, 100>>, <<128, 60, 0>>, <<176, 7, 1>>}

\* how many milliseconds into a blocking poll with a timeout a message
\* may arrive
ArrivalDelays ==
    IF inq = <<>> /\ CurrentTimeout > 0
    THEN {0, CurrentTimeout \div 2}
    ELSE {0}

\* the keyboard sends msg while the scheduler is in poll.  (Bytes sent
\* between two polls are seen by the next poll, as if sent at its start.)
Arrive(msg, d) ==
    /\ pc = "poll"
    /\ inputs_sent < MaxInputs
    /\ inq' = inq \o msg
    /\ inputs_sent' = inputs_sent + 1
    /\ clock' = AddMillis(clock, d)
    /\ UNCHANGED <<file, dry_run, dev, parseVars, playVars, wire, faults>>

KeyboardSends == \E msg \in InputMsgs : \E d \in ArrivalDelays : Arrive(msg, d)

(* ---------------------------------------------------------------------- *)
(* Files                                                                  *)
(* ---------------------------------------------------------------------- *)
\* track events (delta-time first) of the files the parser is run on
ParseMsgs ==
    { <<0, 144, 60, 100>>,             \* Note-On, channel 1
      <<5, 144, 62, 100>>,             \* Note-On, channel 1, delta 5
      <<5, 64, 0>>,                    \* two data bytes, no status, delta 5
      <<0, 129, 60, 64>>,              \* Note-Off, channel 2
      <<3, 192, 5>>,                   \* program change, delta 3
      <<0, 176, 7, 100>>,              \* controller change
      <<2, 255, 47, 0>>,               \* meta: end of track, delta 2
      <<0, 255, 81, 3, 15, 66, 64>>,   \* meta: set tempo 1000000
      <<0, 240, 0>>,                   \* SysEx of length 0
      <<1, 247, 2, 1, 2>>,             \* SysEx of length 2, delta 1
      <<129, 0, 145, 60, 100>> }       \* Note-On, channel 2, delta 128

\* track events of a second track, to meet the first one at equal ticks
TieMsgs ==
    { <<0, 145, 64, 90>>,              \* Note-On, channel 2
      <<5, 144, 65, 80>>,              \* Note-On, channel 1, delta 5
      <<0, 255, 81, 3, 7, 161, 32>> }  \* meta: set tempo 500000

\* track events of the files that are played
PlayMsgs ==
    { <<0, 144, 60, 100>>,             \* Note-On, channel 1
      <<5, 144, 62, 100>>,             \* Note-On, channel 1, delta 5
      <<0, 145, 64, 90>>,              \* Note-On, channel 2
      <<5, 129, 64, 0>>,               \* Note-Off, channel 2, delta 5
      <<0, 255, 81, 3, 15, 66, 64>> }  \* meta: set tempo 1000000

Bodies(msgs, n) == {Concat(ms) : ms \in SeqsUpTo(msgs, n)}

OneTrackFile(tpqn, a) == HeaderBytes(6, 1, 1, tpqn) \o ChunkBytes(MTrk, a)

TwoTrackFile(tpqn, a, b) ==
    HeaderBytes(6, 1, 2, tpqn) \o ChunkBytes(MTrk, a) \o ChunkBytes(MTrk, b)

\* a foreign chunk between the header and the track
ForeignChunkFile(tpqn, a) ==
    HeaderBytes(6, 1, 1, tpqn) \o ChunkBytes(XFIH, <<222, 173, 190, 239>>)
        \o ChunkBytes(MTrk, a)

ParseFiles ==
    {OneTrackFile(96, a) : a \in Bodies(ParseMsgs, ParseMaxMsgs)}
    \cup {TwoTrackFile(96, a, b) : a \in Bodies(ParseMsgs, ParseMaxMsgs - 1),
                                   b \in Bodies(TieMsgs, ParseMaxMsgs - 1)}
    \cup {ForeignChunkFile(96, a) : a \in Bodies(TieMsgs, 1)}

PlayFiles ==
    {OneTrackFile(96, a) : a \in Bodies(PlayMsgs, PlayMaxMsgs)}
    \cup {TwoTrackFile(96, a, b) : a \in Bodies(PlayMsgs, PlayMaxMsgs),
                                   b \in Bodies(PlayMsgs, 1)}

(* ---------------------------------------------------------------------- *)
(* Specifications                                                         *)
(* ---------------------------------------------------------------------- *)
\* the state after main has opened the file and the device; the locals of
\* playback_midievents hold whatever the stack held
InitWith(files, modes, spent) ==
    /\ file \in files
    /\ dry_run \in modes
    /\ dev = open_mididevice(dry_run)
    /\ fpos = 0
    /\ pc = "header"
    /\ ret = 0
    /\ track_count = 0
    /\ ticks_pqn = 0
    /\ tracks_parsed = 0
    /\ track_bytes = 0
    /\ current_byte = 0
    /\ at_ticks = 0
    /\ prev_event_type = 0
    /\ events = <<>>
    /\ allocated_size = DEFAULT_MIDIEVENTS_SIZE
    /\ calls = <<>>
    /\ true_ticks = 0
    /\ parsed = <<>>
    /\ i = 0
    /\ lighted_keys_index = 0
    /\ next_lighted_keys_index = 0
    /\ current_at_ticks = 0
    /\ tempo_microseconds_pqn = 0
    /\ notes_waiting = {0}
    /\ wait_microseconds = 0
    /\ bytes_to_read = 0
    /\ raw_midievent = <<0, 0, 0>>
    /\ nextev_time = [tv_sec |-> 0, tv_nsec |-> 0]
    /\ clock = [tv_sec |-> 0, tv_nsec |-> ClockStart]
    /\ inq = <<>>
    /\ wire = <<>>
    /\ inputs_sent = 0
    /\ faults = spent
    /\ out = <<>>
    /\ wait_entry = [clock |-> [tv_sec |-> 0, tv_nsec |-> 0], empty |-> TRUE]

Init == InitWith(PlayFiles, BOOLEAN, 0)

Next ==
    \/ ParseHeader
    \/ FindTrack
    \/ NextEvent
    \/ TrackEnd
    \/ Sort
    \/ StartPlayback
    \/ RefillLights
    \/ EnterWait
    \/ PollTimeout
    \/ PollInput
    \/ WaitFault
    \/ ApplyEvent
    \/ Finish
    \/ KeyboardSends
    \/ CloseDevice

Spec == Init /\ [][Next]_vars

\* files the parser rejects: a format-0 header, a chunk that is no track
\* and nothing after it, a second track that is missing, a set-tempo event
\* of length 2, and a track that ends before its event does
BadFiles ==
    { HeaderBytes(6, 0, 1, 96) \o ChunkBytes(MTrk, <<0, 145, 64, 90>>),
      HeaderBytes(6, 1, 1, 96) \o ChunkBytes(XFIH, <<0, 145, 64, 90>>),
      HeaderBytes(6, 1, 2, 96) \o ChunkBytes(MTrk, <<0, 145, 64, 90>>),
      HeaderBytes(6, 1, 1, 96)
          \o ChunkBytes(MTrk, <<0, 145, 64, 90, 0, 255, 81, 2, 15, 66>>),
      HeaderBytes(6, 1, 1, 96) \o MTrk \o BE32(8) \o <<0, 145, 64, 90, 0, 145>> }

\* whole runs of the program, on files that parse and on files that do not
RunFiles == {OneTrackFile(96, a) : a \in Bodies(PlayMsgs, PlayMaxMsgs)} \cup BadFiles

RunInit == InitWith(RunFiles, BOOLEAN, 0)

RunSpec == RunInit /\ [][Next]_vars

\* playback without failures, with a player who presses the keys that are
\* lit and sends nothing else
PressPending ==
    /\ pc = "poll"
    /\ inq = <<>>
    /\ \E n \in notes_waiting :
          /\ inq' = <<MIDI_NOTE_ON, n, 100>>
          /\ inputs_sent' = inputs_sent + 1
    /\ UNCHANGED <<file, dry_run, dev, parseVars, playVars, clock, wire, faults>>

LiveInit == InitWith(PlayFiles, {FALSE}, MaxFaults)

LiveNext ==
    \/ ParseHeader
    \/ FindTrack
    \/ NextEvent
    \/ TrackEnd
    \/ Sort
    \/ StartPlayback
    \/ RefillLights
    \/ EnterWait
    \/ PollTimeout
    \/ PollInput
    \/ ApplyEvent
    \/ Finish
    \/ PressPending
    \/ CloseDevice

\* every program step that can be taken is taken, and every lit key is
\* pressed in the end
LiveSpec == LiveInit /\ [][LiveNext]_vars /\ WF_vars(LiveNext)

\* the parser and the sort alone, on a wider set of files
ParseInit == InitWith(ParseFiles, {FALSE}, 0)

ParseNext ==
    \/ ParseHeader
    \/ FindTrack
    \/ NextEvent
    \/ TrackEnd
    \/ Sort

ParseSpec == ParseInit /\ [][ParseNext]_vars

(* ---------------------------------------------------------------------- *)
(* Properties of the parser and the sort (ParseSpec)                      *)
(* ---------------------------------------------------------------------- *)
IsNote(status) == HighNibble(status) \in {MIDI_NOTE_OFF, MIDI_NOTE_ON}

\* the number of bytes of the variable-length quantity at offset p
VlqLenAt(p) ==
    IF ByteAt(p) < 128 THEN 1
    ELSE IF ByteAt(p + 1) < 128 THEN 2
    ELSE IF ByteAt(p + 2) < 128 THEN 3 ELSE 4

\* its value: the 7-bit groups, most significant first
VlqValueAt(p) ==
    LET n == VlqLenAt(p)
        g(k) == ByteAt(p + k) % 128
    IN  IF n = 1 THEN g(0)
        ELSE IF n = 2 THEN g(0) * 128 + g(1)
        ELSE IF n = 3 THEN g(0) * 16384 + g(1) * 128 + g(2)
        ELSE g(0) * 2097152 + g(1) * 16384 + g(2) * 128 + g(3)

\* C7: every Channel-voice event in the event buffer has a status byte
\* whose high nibble is 0x8 or 0x9; nothing else is ever stored as one.
C7_OnlyNotesStored ==
    \A k \in 1..Len(events) :
        events[k].type = "MIDIEVENT_CHANNEL_VOICE" => IsNote(events[k].raw[1])

\* C8: the at_ticks of every emitted event is the sum of the delta-times
\* of all the events of its track up to and including it, skipped or not.
C8_TicksSumAllDeltas ==
    \A k \in 1..Len(calls) :
        calls[k].ret = 1 => calls[k].me.at_ticks = calls[k].true_ticks

\* the decoded event calls[k] starts with a data byte, right after a note
\* event of the same track
ContinuesRun(k) ==
    /\ k > 1
    /\ calls[k - 1].track = calls[k].track
    /\ calls[k - 1].ret = 1
    /\ calls[k - 1].me.type = "MIDIEVENT_CHANNEL_VOICE"
    /\ IsNote(calls[k - 1].me.raw[1])
    /\ calls[k].first < 128

\* C9: an event that starts with a data byte is decoded with the status
\* of the previous event of its track; in a run of note messages after
\* one status byte, each message yields a Channel-voice event with that
\* status, its own two data bytes, and the previous at_ticks plus its delta.
C9_RunningStatus ==
    \A k \in 1..Len(calls) :
        LET c == calls[k]
            dataAt == c.start + VlqLenAt(c.start)
        IN  /\ (k > 1 /\ calls[k - 1].track = c.track /\ c.first < 128)
                   => c.status = calls[k - 1].status
            /\ ContinuesRun(k) =>
                   /\ c.ret = 1
                   /\ c.me.type = "MIDIEVENT_CHANNEL_VOICE"
                   /\ c.me.raw = <<calls[k - 1].me.raw[1], ByteAt(dataAt),
                                   ByteAt(dataAt + 1)>>
                   /\ c.me.at_ticks = calls[k - 1].me.at_ticks + VlqValueAt(c.start)

\* a run of three note events, the last two without a status byte
C9_Witness ==
    \E k \in 2..(Len(calls) - 1) :
        /\ ContinuesRun(k)
        /\ ContinuesRun(k + 1)
        /\ calls[k + 1].me.at_ticks > calls[k - 1].me.at_ticks
        /\ Len(events) >= 3

\* the events stored by the parser, in parse order (track by track)
Emitted == SelectSeq(calls, LAMBDA c : c.ret = 1)

\* C10: after the sort the event buffer holds the parsed events, each
\* once, in non-decreasing at_ticks order, and events with equal at_ticks
\* are in parse order (track-major, then the order within the track).
C10_StableSort ==
    pc = "play" =>
        /\ Len(events) = Len(parsed)
        /\ Len(parsed) = Len(Emitted)
        /\ \A k \in 1..Len(parsed) : parsed[k] = Emitted[k].me /\ parsed[k].id = k
        /\ \A k \in 2..Len(Emitted) : Emitted[k - 1].track <= Emitted[k].track
        /\ \A k \in 1..Len(events) :
               /\ events[k].id \in 1..Len(parsed)
               /\ events[k] = parsed[events[k].id]
        /\ \A a, b \in 1..Len(events) :
               a < b =>
                   /\ events[a].id # events[b].id
                   /\ events[a].at_ticks <= events[b].at_ticks
                   /\ events[a].at_ticks = events[b].at_ticks
                          => events[a].id < events[b].id

\* the sort has moved events, and events of two tracks meet at one tick
C10_Witness ==
    /\ pc = "play"
    /\ events # parsed
    /\ \E a, b \in 1..Len(events) :
           /\ a < b
           /\ events[a].at_ticks = events[b].at_ticks
           /\ Emitted[events[a].id].track # Emitted[events[b].id].track

(* ---------------------------------------------------------------------- *)
(* Properties of the VLQ decoder (VlqSpec)                                *)
(* ---------------------------------------------------------------------- *)
\* the longest byte string the decoder is run on
VlqMaxLen == 5

\* the variable-length encoding of v, 0 <= v < 2^28: its 7-bit groups,
\* most significant first, each but the last with the high bit set
VlqEncode(v) ==
    IF v < 128 THEN <<v>>
    ELSE IF v < 16384 THEN <<128 + (v \div 128), v % 128>>
    ELSE IF v < 2097152
    THEN <<128 + (v \div 16384), 128 + ((v \div 128) % 128), v % 128>>
    ELSE <<128 + (v \div 2097152), 128 + ((v \div 16384) % 128),
           128 + ((v \div 128) % 128), v % 128>>

\* values at and around the lengths of the encoding
VlqValues ==
    {0, 1, 64, 127, 128, 200, 8192, 16383, 16384, 100000, 2097151, 2097152,
     134217728, 268435454, 268435455}

\* byte strings the decoder is run on: every string of up to VlqMaxLen
\* bytes over four bytes, and the encodings with something after them
VlqFiles ==
    SeqsUpTo({0, 127, 128, 255}, VlqMaxLen)
    \cup {VlqEncode(v) \o t : v \in VlqValues, t \in {<<>>, <<0>>, <<255, 255>>}}

\* one call of get_next_variable_length_quantity on the stream; ret holds
\* the int it returns
DecodeVlq ==
    /\ pc = "header"
    /\ LET r == get_next_variable_length_quantity(fpos, current_byte)
       IN  /\ fpos' = r.pos
           /\ current_byte' = r.cb
           /\ ret' = r.value
    /\ pc' = "vlq"
    /\ UNCHANGED <<file, dry_run, dev, track_count, ticks_pqn, tracks_parsed,
                   track_bytes, at_ticks, prev_event_type, events, allocated_size,
                   calls, true_ticks, parsed, playVars, envVars>>

VlqInit == InitWith(VlqFiles, {FALSE}, 0)

VlqSpec == VlqInit /\ [][DecodeVlq]_vars

\* the low 7 bits of the first n bytes of the file, most significant first
RECURSIVE Groups(_)
Groups(n) == IF n = 0 THEN 0 ELSE Groups(n - 1) * 128 + (file[n] % 128)

\* the file ends before a quantity does: fewer than four bytes, all with
\* the high bit set
VlqCutShort == Len(file) < 4 /\ \A k \in 1..Len(file) : file[k] >= 128

\* C19: the decoder reads at most four bytes and stops after the first
\* byte whose high bit is clear; it advances the byte cursor by the number
\* of bytes read and returns their low 7 bits, most significant first.  So
\* the encoding of a value below 2^28 decodes to that value, and four bytes
\* with the high bit set decode to their four groups, a value that is not
\* negative; -1 is returned only when the file ends inside the quantity
C19_VlqDecoding ==
    pc = "vlq" =>
        /\ fpos <= 4
        /\ current_byte = fpos
        /\ \A k \in 1..(fpos - 1) : file[k] >= 128
        /\ (ret = -1) <=> VlqCutShort
        /\ ~VlqCutShort =>
              /\ fpos >= 1
              /\ file[fpos] < 128 \/ fpos = 4
              /\ ret = Groups(fpos)
              /\ ret >= 0
        /\ \A v \in VlqValues :
              (/\ Len(file) >= Len(VlqEncode(v))
               /\ SubSeq(file, 1, Len(VlqEncode(v))) = VlqEncode(v)) =>
                  ret = v /\ fpos = Len(VlqEncode(v))
        /\ (Len(file) >= 4 /\ \A k \in 1..4 : file[k] >= 128) =>
              ret = ((file[1] % 128) * 2097152 + (file[2] % 128) * 16384
                     + (file[3] % 128) * 128 + (file[4] % 128))

\* four bytes ff ff ff ff have been decoded to 2^28 - 1
C19_Witness ==
    /\ pc = "vlq"
    /\ Len(file) >= 4
    /\ SubSeq(file, 1, 4) = <<255, 255, 255, 255>>
    /\ fpos = 4
    /\ ret = 268435455

(* ---------------------------------------------------------------------- *)
(* Properties of the header parser (HeaderSpec)                           *)
(* ---------------------------------------------------------------------- *)
\* a header chunk with the given words before its length field, and as
\* many bytes beyond the first six as its length announces
HeaderChunk(magic, len, format, ntracks, tpqn) ==
    magic \o BE32(len) \o BE16(format) \o BE16(ntracks) \o BE16(tpqn)
        \o [k \in 1..(len - 6) |-> 170]

\* the words a file may start with: the magic, another chunk's magic, the
\* magic cut short by a NUL, and the magic after a blank or a newline
HeaderMagics ==
    {MThd, MTrk, <<77, 84, 104, 0>>, <<32>> \o MThd, <<10, 10>> \o MThd}

HeaderLengths == {5, 6, 7}
HeaderFormats == {0, 1, 2}
HeaderTrackCounts == {0, 1}
HeaderTicks == {0, 1, 96, 32767, 32768, 65535}

\* files with every combination of header fields, each followed by one
\* track, and the files that end inside the header
HeaderFiles ==
    {HeaderChunk(m, l, f, n, t) \o ChunkBytes(MTrk, <<0, 144, 60, 100>>) :
        m \in HeaderMagics, l \in HeaderLengths, f \in HeaderFormats,
        n \in HeaderTrackCounts, t \in HeaderTicks}
    \cup {SubSeq(HeaderChunk(MThd, 6, 1, 1, 96), 1, k) : k \in 0..13}

HeaderInit == InitWith(HeaderFiles, {FALSE}, 0)

HeaderSpec == HeaderInit /\ [][ParseNext]_vars

\* the header fields of the file, at their offsets
FileMagic == SubSeq(file, 1, 4)
FileHeaderLength == ReadBE32(4)
FileFormat == ReadBE16(8)
FileTrackCount == ReadBE16(10)
FileTicks == ReadBE16(12)

\* what the header must fulfil
HeaderValid ==
    /\ Len(file) >= 14
    /\ FileMagic = MThd
    /\ ~ULess(FileHeaderLength, 6)
    /\ FileFormat = 1
    /\ FileTicks \in 1..32767

\* parse_smf_header has run and returned 0 (it alone sets ticks_pqn, and
\* never to 0)
HeaderAccepted == pc # "header" /\ ticks_pqn # 0

\* C11: parse_smf_header succeeds exactly when the magic is MThd, the
\* header length is at least 6, the format is 1 and ticks_pqn is in
\* 1..0x7FFF; on success it has returned the file's track count and
\* ticks_pqn and stands behind the header chunk; otherwise the run ends
\* in error
C11_HeaderValidation ==
    pc # "header" =>
        /\ HeaderAccepted <=> HeaderValid
        /\ HeaderAccepted =>
              /\ track_count = FileTrackCount
              /\ ticks_pqn = FileTicks
              /\ (pc = "chunk" \/ track_count = 0) => fpos = 8 + FileHeaderLength
        /\ ~HeaderAccepted => (pc = "exit" /\ ret = -1)

(* ---------------------------------------------------------------------- *)
(* Properties of playback (Spec, LiveSpec)                                *)
(* ---------------------------------------------------------------------- *)
\* the complete light-on writes for note n made by the latest call of the
\* light-on routine, which processed the events from lighted_keys_index up
\* to next_lighted_keys_index
LitBy(n) == {k \in 1..Len(out) :
                /\ out[k].kind = "light" /\ out[k].n = 3
                /\ out[k].msg = <<MIDI_NOTE_ON, out[k].msg[2], 1>>
                /\ out[k].msg[2] % 128 = n
                /\ out[k].idx >= lighted_keys_index
                /\ out[k].idx < next_lighted_keys_index}

\* a note is pending and playback has reached the batch that lit it
Gated == notes_waiting # {} /\ lighted_keys_index <= i

\* the message wait_for_notes completes when it reads the unread bytes
Assembled ==
    [k \in 1..3 |-> IF k <= 3 - bytes_to_read THEN raw_midievent[k]
                    ELSE inq[k - (3 - bytes_to_read)]]

\* C1 (state part): no event is applied while a note lit by its own or an
\* earlier batch is pending, and the wait before such an event has no timeout
C1_GateHolds ==
    (~dry_run /\ pc \in {"poll", "apply"}) =>
        /\ \A n \in notes_waiting : LitBy(n) # {}
        /\ pc = "apply" => ~Gated
        /\ (pc = "poll" /\ Gated) => wait_microseconds = -1 /\ CurrentTimeout = -1

\* C1 (step part): a pending note is cleared only by a complete input
\* message whose status is exactly 0x90 and whose note number is that note
C1_ClearedByNoteOn ==
    (pc # "play" /\ notes_waiting' # notes_waiting /\ notes_waiting' \subseteq notes_waiting) =>
        /\ pc = "poll"
        /\ Len(inq) >= bytes_to_read
        /\ Assembled[1] = MIDI_NOTE_ON
        /\ notes_waiting' = notes_waiting \ {Assembled[2] % 128}

\* C1: in a non-dry-run playback, once a light-on batch has set pending
\* notes, neither the first event of that batch nor a later one is applied
\* while one of them is pending; the wait before it has no timeout and a
\* pending note goes away only through an input message 0x90 with its note.
C1_Gating == [](C1_GateHolds) /\ [][C1_ClearedByNoteOn]_vars

\* the gate has been passed: the event about to be applied was lit, waited
\* for without a timeout, and the key press was mirrored
C1_Witness ==
    /\ ~dry_run
    /\ pc = "apply"
    /\ wait_microseconds = -1
    /\ \E k \in 1..Len(out) : out[k].kind = "light" /\ out[k].idx = i
    /\ \E k \in 1..Len(out) : out[k].kind = "mirror"
    /\ notes_waiting = {}
    /\ i >= 1

\* C2: with no failure and a player who presses every lit key, playback
\* reaches the end of the event buffer and returns success
C2_PlaybackEnds == <>(pc = "exit" /\ ret = 0)

\* microseconds from timespec b to the later timespec a
MicrosBetween(a, b) ==
    (a.tv_sec - b.tv_sec) * 1000000 + (a.tv_nsec \div 1000) - (b.tv_nsec \div 1000)

\* C3: a wait with a finite budget entered with no note pending returns
\* only when its deadline has expired (here: is less than the poll's one
\* millisecond away), whatever input is unread
C3_FiniteWaitRunsOut ==
    (~dry_run /\ pc = "apply" /\ wait_microseconds >= 0 /\ wait_entry.empty) =>
        MicrosBetween(clock, wait_entry.clock) + 1000 > wait_microseconds

\* C4: without I/O errors, when step 4 is about to run for event i, the
\* light-on routine has processed every event that shares its tick, and
\* has written the velocity-1 echo of each channel-1 Note-On among them
C4_LitBeforePlayed ==
    (~dry_run /\ pc = "apply" /\ faults = 0) =>
        \A j \in 0..(Len(events) - 1) :
            events[j + 1].at_ticks = EventAt(i).at_ticks =>
                /\ j < next_lighted_keys_index
                /\ (events[j + 1].type = "MIDIEVENT_CHANNEL_VOICE"
                    /\ events[j + 1].raw[1] = MIDI_NOTE_ON) =>
                       \E k \in 1..Len(out) :
                           out[k] = Write("light", j, <<MIDI_NOTE_ON, events[j + 1].raw[2], 1>>, 3)

\* step 4 is about to run for an event that is not the last of its tick,
\* and a channel-1 Note-On later in the buffer at the same tick is lit
C4_Witness ==
    /\ ~dry_run
    /\ pc = "apply"
    /\ faults = 0
    /\ \E j \in (i + 1)..(Len(events) - 1) :
           /\ events[j + 1].at_ticks = EventAt(i).at_ticks
           /\ events[j + 1].raw[1] = MIDI_NOTE_ON
           /\ \E k \in 1..Len(out) : out[k].kind = "light" /\ out[k].idx = j

\* the step-4 writes, in the order they were made
Played == SelectSeq(out, LAMBDA w : w.kind = "play")

\* C5: the step-4 writes follow the order of the event buffer: their
\* at_ticks never decrease, and writes of events with equal at_ticks are in
\* parse order; each writes the message of its event
C5_OutputOrder ==
    pc \in {"loop", "budget", "poll", "apply", "exit"} =>
        /\ \A k \in 1..Len(Played) :
               /\ Played[k].idx \in 0..(Len(events) - 1)
               /\ Played[k].msg = EventAt(Played[k].idx).raw
        /\ \A a, b \in 1..Len(Played) :
               a < b =>
                   LET ea == EventAt(Played[a].idx)
                       eb == EventAt(Played[b].idx)
                   IN  /\ Played[a].idx < Played[b].idx
                       /\ ea.at_ticks <= eb.at_ticks
                       /\ ea.at_ticks = eb.at_ticks => ea.id < eb.id

\* two events of different tracks at one tick have both been written, and
\* so has an event at a later tick
C5_Witness ==
    /\ Len(Played) >= 3
    /\ \E a, b \in 1..Len(Played) :
           /\ a < b
           /\ EventAt(Played[a].idx).at_ticks = EventAt(Played[b].idx).at_ticks
           /\ Emitted[EventAt(Played[a].idx).id].track
                  # Emitted[EventAt(Played[b].idx).id].track
    /\ EventAt(Played[1].idx).at_ticks < EventAt(Played[Len(Played)].idx).at_ticks

\* C6: the pending-note set is empty when playback starts and whenever
\* playback_midievents returns success, in normal and in dry-run mode
C6_PendingEmptyAtEnds ==
    /\ (pc = "loop" /\ i = 0) => notes_waiting = {}
    /\ (pc = "exit" /\ ret = 0) => notes_waiting = {}

(* ---------------------------------------------------------------------- *)
(* Properties of whole runs (RunSpec)                                     *)
(* ---------------------------------------------------------------------- *)
\* the header and every declared track have been parsed
AllParsed == ticks_pqn # 0 /\ tracks_parsed = track_count

\* the buffer is in playback order: a permutation of the parsed events,
\* by at_ticks
BufferSorted ==
    /\ Len(events) = Len(parsed)
    /\ {events[k].id : k \in 1..Len(events)} = 1..Len(parsed)
    /\ \A k \in 1..(Len(events) - 1) : events[k].at_ticks <= events[k + 1].at_ticks

C13_IOFailuresFatal ==
    (faults > 0 \/ \E k \in 1..Len(out) : out[k].n < 3) =>
        /\ pc \in {"exit", "done"}
        /\ ret = -1
        /\ \A k \in 1..(Len(out) - 1) : out[k].n = 3

\* C14: the process exit status is 0 when sequencing succeeds and 1 when
\* do_sequencing reports an error (a parse error, a device write or read
\* error, a poll or clock error)
C14_ExitStatus ==
    pc = "exit" =>
        /\ ret = 0 => ExitStatus = 0
        /\ ret # 0 => ExitStatus = 1

\* C15: with -n the device is never opened, written, read, polled or
\* closed, no device call can fail, and playback of every file that
\* parses returns success
C15_DryRunNoDevice ==
    dry_run =>
        /\ dev = "none"
        /\ out = <<>>
        /\ pc # "poll"
        /\ inq = <<>> /\ inputs_sent = 0
        /\ faults = 0
        /\ (pc \in {"exit", "done"} /\ AllParsed) => ret = 0

\* a dry run has gone through a buffer that holds a key to light and an
\* event to play, and the process has ended
C15_Witness ==
    /\ dry_run
    /\ pc = "done"
    /\ ret = 0
    /\ i = Len(events)
    /\ \E k \in 1..Len(events) : LightsKey(events[k])
    /\ \E k \in 1..Len(events) : IsPlayed(events[k])

(* ---------------------------------------------------------------------- *)
(* The open-loop playback loop of the earlier revision                    *)
(* ---------------------------------------------------------------------- *)
\* tempo_microseconds_pqn when the open loop reaches the event at index
\* idx (0-based): 500000, or the tempo of the last tempo change before it
RECURSIVE OpenLoopTempo(_)
OpenLoopTempo(idx) ==
    IF idx = 0 THEN 500000
    ELSE IF events[idx].type = "MIDIEVENT_TEMPO_CHANGE" THEN TempoOf(events[idx])
    ELSE OpenLoopTempo(idx - 1)

\* the microseconds the open loop sleeps before it applies the event at
\* index idx: nothing unless the tick difference is positive
OpenLoopWait(idx) ==
    LET cur == IF idx = 0 THEN 0 ELSE events[idx].at_ticks
        at_ticks_difference == SubInt(events[idx + 1].at_ticks, cur)
    IN  IF at_ticks_difference > 0
        THEN MulInt(OpenLoopTempo(idx) \div ticks_pqn, at_ticks_difference)
        ELSE 0

\* C16: with -n the scheduler waits, before it applies each event, the
\* tick-derived duration the open-loop playback loop waits before the same
\* event of the same buffer
C16_DryRunTiming ==
    (dry_run /\ pc = "apply") =>
        MicrosBetween(clock, wait_entry.clock) = OpenLoopWait(i)

\* in iteration i the light-refill step is over
AfterRefill == pc \in {"budget", "poll", "apply"}

\* C17 (state part): after the light-refill step of iteration i,
\* lighted_keys_index is at least i
C17_AtLeastIndex == AfterRefill => lighted_keys_index >= i

\* C17 (step part): lighted_keys_index never decreases
C17_NeverDecreases == lighted_keys_index' >= lighted_keys_index

\* C17: during playback lighted_keys_index never decreases, and in every
\* iteration i it is at least i once the light-refill step is over
C17_LightedIndex == [](C17_AtLeastIndex) /\ [][C17_NeverDecreases]_vars

\* the bytes the device accepted in the first k writes
RECURSIVE BytesAccepted(_)
BytesAccepted(k) == IF k = 0 THEN 0 ELSE BytesAccepted(k - 1) + out[k].n

\* C18: when playback has returned success, the number of bytes the device
\* accepted (light-on echoes, step-4 writes and Note-Off mirrors together)
\* is a multiple of 3
C18_OutputMultipleOf3 ==
    (pc \in {"exit", "done"} /\ ret = 0) => BytesAccepted(Len(out)) % 3 = 0

\* the step-4 writes made for the event at index j (0-based)
PlayedFor(j) == {k \in 1..Len(out) : out[k].kind = "play" /\ out[k].idx = j}

\* C20: in a non-dry run without failures, step 4 has handled every event
\* before index i: a tempo change has set the tempo and written nothing,
\* and every other event, a channel-1 Note-On too, has had its 3-byte
\* message written unchanged, once
C20_StepFour ==
    (~dry_run /\ faults = 0 /\ pc \in {"loop", "exit", "done"} /\ AllParsed) =>
        /\ tempo_microseconds_pqn = OpenLoopTempo(i)
        /\ \A j \in 0..(i - 1) :
              IF EventAt(j).type = "MIDIEVENT_TEMPO_CHANGE"
              THEN PlayedFor(j) = {}
              ELSE /\ Cardinality(PlayedFor(j)) = 1
                   /\ \A k \in PlayedFor(j) : out[k].msg = EventAt(j).raw /\ out[k].n = 3

(* ---------------------------------------------------------------------- *)
(* Properties of the light-on routine and the pending set (LightSpec)     *)
(* ---------------------------------------------------------------------- *)
\* track events of the files the light-on routine is looked at with: notes
\* on and off on channel 1, a note on channel 2, and two tempo changes, to
\* 500112 (0x07a190) and to 500000 (0x07a120) microseconds
LightMsgs ==
    { <<0, 144, 60, 100>>,
      <<0, 128, 60, 0>>,
      <<0, 145, 64, 90>>,
      <<0, 255, 81, 3, 7, 161, 144>>,
      <<0, 255, 81, 3, 7, 161, 32>> }

LightFiles == {OneTrackFile(96, a) : a \in Bodies(LightMsgs, PlayMaxMsgs)}

LightInit == InitWith(LightFiles, BOOLEAN, 0)

LightSpec == LightInit /\ [][Next]_vars

\* the event at index idx is a Channel-voice event with status 0x90
IsChannel1NoteOn(idx) ==
    /\ EventAt(idx).type = "MIDIEVENT_CHANNEL_VOICE"
    /\ EventAt(idx).raw[1] = MIDI_NOTE_ON

\* C21 (state part): every write of the light-on routine is the velocity-1
\* message of a Channel-voice event with status 0x90
C21_WritesOnlyNoteOn ==
    \A k \in 1..Len(out) :
        out[k].kind = "light" =>
            /\ IsChannel1NoteOn(out[k].idx)
            /\ out[k].msg = <<MIDI_NOTE_ON, EventAt(out[k].idx).raw[2], 1>>

\* C21 (step part): a note becomes pending only for a Channel-voice event
\* with status 0x90 and that note, among the events the routine went over
C21_PendingOnlyNoteOn ==
    \A n \in notes_waiting' \ notes_waiting :
        \E idx \in next_lighted_keys_index..(next_lighted_keys_index' - 1) :
            IsChannel1NoteOn(idx) /\ EventAt(idx).raw[2] % 128 = n

\* C21: the light-on routine writes a velocity-1 message and sets a pending
\* entry only for Channel-voice events whose status is exactly 0x90; a
\* tempo change, a Note-Off and an event of another channel cause neither
C21_LightOnlyNoteOn == [](C21_WritesOnlyNoteOn) /\ [][C21_PendingOnlyNoteOn]_vars

(* ---------------------------------------------------------------------- *)
(* Properties of the track parser (TrackSpec)                             *)
(* ---------------------------------------------------------------------- *)
\* track events of the files of TrackSpec: a Note-On, two data bytes with
\* no status, an end-of-track meta event, a SysEx of length 2 and one of
\* length 0
TrackMsgs ==
    { <<0, 144, 60, 100>>,
      <<5, 64, 0>>,
      <<2, 255, 47, 0>>,
      <<1, 247, 2, 1, 2>>,
      <<0, 240, 0>> }

\* the events of a track
TrackMaxMsgs == 2

\* a first track whose chunk announces n bytes and holds the bytes a,
\* followed by a second track
DeclaredTrackFile(n, a, b) ==
    HeaderBytes(6, 1, 2, 96) \o MTrk \o BE32(n) \o a \o ChunkBytes(MTrk, b)

\* two-track files of every pair of bodies, and files whose first track
\* announces fewer bytes than its events take
TrackFiles ==
    {TwoTrackFile(96, a, b) : a, b \in Bodies(TrackMsgs, TrackMaxMsgs)}
    \cup {DeclaredTrackFile(n, a, <<0, 144, 60, 100>>) :
             a \in Bodies(TrackMsgs, TrackMaxMsgs), n \in 0..(2 * 7)}

TrackInit == InitWith(TrackFiles, {FALSE}, 0)

TrackSpec == TrackInit /\ [][ParseNext]_vars

\* the decoded events of the track that is being parsed
CallsOfTrack == SelectSeq(calls, LAMBDA c : c.track = tracks_parsed + 1)

\* the while loop of parse_next_track has ended: the track's parse returns 0
TrackReturns == pc = "events" /\ ~ULess(current_byte, track_bytes)

\* C22: when the parse of a track returns success, the byte cursor equals
\* the declared length of the chunk, and the stream stands at the first
\* byte after the chunk body, where the next chunk is read
C22_TrackByteBudget ==
    TrackReturns =>
        /\ current_byte = track_bytes
        /\ CallsOfTrack # <<>> => fpos = CallsOfTrack[1].start + track_bytes

\* the status the decoded event calls[k] must be decoded with: its first
\* byte if that has the high bit set, else the status of the event before
\* it in its track, and zero if there is none
ExpectedStatus(k) ==
    IF calls[k].first >= 128 THEN calls[k].first
    ELSE IF k > 1 /\ calls[k - 1].track = calls[k].track THEN calls[k - 1].status
    ELSE 0

\* C23: the last-status register is zero when a track starts, whatever the
\* track before it left; after each decoded event it holds the status that
\* event was decoded with, 0xff, 0xf0 and 0xf7 too, and an event that
\* starts with a data byte is decoded with the register's value
C23_LastStatusPerTrack ==
    /\ (pc = "events" /\ CallsOfTrack = <<>>) => prev_event_type = 0
    /\ (pc = "events" /\ CallsOfTrack # <<>>) =>
           prev_event_type = ExpectedStatus(Len(calls))
    /\ \A k \in 1..Len(calls) :
           /\ calls[k].status = ExpectedStatus(k)
           /\ calls[k].ret = 1 =>
                  IF calls[k].status = MIDI_META_EVENT
                  THEN calls[k].me.type = "MIDIEVENT_TEMPO_CHANGE"
                  ELSE /\ calls[k].me.type = "MIDIEVENT_CHANNEL_VOICE"
                       /\ calls[k].me.raw[1] = calls[k].status
           /\ calls[k].status = MIDI_META_EVENT =>
                  calls[k].ret = 0 \/ calls[k].me.type = "MIDIEVENT_TEMPO_CHANGE"

\* the first track ended with an event that starts with a data byte and
\* was decoded as a meta event; the second track starts with a data byte
\* too, and that one was decoded with status zero
C23_Witness ==
    \E k \in 3..Len(calls) :
        /\ calls[k].track = 2
        /\ calls[k].first < 128
        /\ calls[k].status = 0
        /\ calls[k].ret = 0
        /\ calls[k - 1].track = 1
        /\ calls[k - 1].first < 128
        /\ calls[k - 1].status = MIDI_META_EVENT
        /\ calls[k - 2].track = 1
        /\ calls[k - 2].first = MIDI_META_EVENT

(* ---------------------------------------------------------------------- *)
(* The tick accumulator (TickSpec)                                        *)
(* ---------------------------------------------------------------------- *)
\* track events with the longest delta-time, 2^28 - 1 ticks: a Note-On on
\* channel 2 and a tempo change to 500000
TickMsgs ==
    { <<255, 255, 255, 127, 145, 64, 90>>,
      <<255, 255, 255, 127, 255, 81, 3, 7, 161, 32>> }

\* the events of a track: nine of these deltas exceed INT_MAX
TickMaxMsgs == 9

TickFiles == {OneTrackFile(96, a) : a \in Bodies(TickMsgs, TickMaxMsgs)}

TickInit == InitWith(TickFiles, {FALSE}, 0)

TickSpec == TickInit /\ [][ParseNext]_vars

\* the sum of the delta-times the parser has added to at_ticks in the given
\* track up to the decoded event calls[k]: those of the events it stored
RECURSIVE AccumulatedTicks(_, _)
AccumulatedTicks(k, track) ==
    IF k = 0 THEN 0
    ELSE IF calls[k].track # track THEN 0
    ELSE ExactSum(AccumulatedTicks(k - 1, track),
                  IF calls[k].ret = 1 THEN calls[k].delta ELSE 0)

\* C24: the at_ticks of every stored event is not negative and is the
\* exact sum of the deltas accumulated in its track; no event is stored
\* with a tick that went beyond the range of the 32-bit accumulator
C24_TicksNeverWrap ==
    \A k \in 1..Len(calls) :
        calls[k].ret = 1 =>
            /\ calls[k].me.at_ticks >= 0
            /\ AccumulatedTicks(k, calls[k].track) >= 0
            /\ calls[k].me.at_ticks = AccumulatedTicks(k, calls[k].track)

(* ---------------------------------------------------------------------- *)
(* The wait budget and the deadline (WaitSpec)                            *)
(* ---------------------------------------------------------------------- *)
\* track events of the files of WaitSpec, which have one tick per quarter
\* note: notes on channels 1 and 2 at delta 0, a tempo change to 1000000,
\* and Note-Offs on channel 2 after 1, 5 and 4295 ticks
WaitMsgs ==
    { <<0, 144, 60, 100>>,
      <<0, 145, 64, 90>>,
      <<0, 255, 81, 3, 15, 66, 64>>,
      <<1, 129, 64, 0>>,
      <<5, 129, 64, 0>>,
      <<161, 71, 129, 64, 0>> }

\* the events of a track
WaitMaxMsgs == 3

WaitFiles == {OneTrackFile(1, a) : a \in Bodies(WaitMsgs, WaitMaxMsgs)}

WaitInit == InitWith(WaitFiles, BOOLEAN, 0)

WaitSpec == WaitInit /\ [][Next]_vars

\* a * b for a, b >= 0: the product, or -1 for every product above INT_MAX
ExactProduct(a, b) == IF b # 0 /\ a > INT_MAX \div b THEN -1 ELSE a * b

\* in a run with the device, the scheduler took the finite branch of step
\* 2 for event i and has called wait_for_event
FiniteWait == ~dry_run /\ pc \in {"poll", "apply"} /\ lighted_keys_index > i

\* C25: when the wait before event i is finite, wait_microseconds is the
\* tick distance to the previously applied event times floor(tempo /
\* ticks_pqn), as an exact product that is not negative; tempo is 500000
\* or that of the last tempo change before i in the buffer
C25_WaitBudget ==
    FiniteWait =>
        /\ tempo_microseconds_pqn = OpenLoopTempo(i)
        /\ current_at_ticks = (IF i = 0 THEN 0 ELSE EventAt(i - 1).at_ticks)
        /\ wait_microseconds >= 0
        /\ wait_microseconds
               = ExactProduct(EventAt(i).at_ticks - current_at_ticks,
                              tempo_microseconds_pqn \div ticks_pqn)

\* the timespec ts plus us microseconds, normalised
TimePlusMicros(ts, us) ==
    LET nsec == ts.tv_nsec + (us % 1000000) * 1000
    IN  [tv_sec |-> ts.tv_sec + (us \div 1000000) + (nsec \div 1000000000),
         tv_nsec |-> nsec % 1000000000]

\* wait_for_event is in its loop with a finite wait
InFiniteWait == ~dry_run /\ pc = "poll" /\ wait_microseconds >= 0

\* C26: for every finite wait the product 1000 * wait_microseconds fits an
\* int, the deadline is the clock reading at entry plus wait_microseconds
\* with tv_nsec in 0..999999999, and the poll timeout is the remaining time
\* to that deadline in milliseconds, never negative
C26_DeadlineArithmetic ==
    InFiniteWait =>
        /\ wait_microseconds <= INT_MAX \div 1000
        /\ nextev_time.tv_nsec \in 0..999999999
        /\ nextev_time = TimePlusMicros(wait_entry.clock, wait_microseconds)
        /\ CurrentTimeout >= 0
        /\ MicrosBetween(nextev_time, clock) >= 0 =>
               /\ 1000 * CurrentTimeout - MicrosBetween(nextev_time, clock) < 1000
               /\ MicrosBetween(nextev_time, clock) - 1000 * CurrentTimeout < 1000

(* ---------------------------------------------------------------------- *)
(* Updates of the pending set (LightSpec)                                 *)
(* ---------------------------------------------------------------------- *)
\* C27 (entries set): a note becomes pending only in the light-on routine,
\* for a Channel-voice event with status 0x90 and that note
C27_SetByLightOn ==
    \A n \in notes_waiting' \ notes_waiting :
        /\ pc = "loop"
        /\ \E idx \in next_lighted_keys_index..(next_lighted_keys_index' - 1) :
               /\ EventAt(idx).type = "MIDIEVENT_CHANNEL_VOICE"
               /\ EventAt(idx).raw = <<MIDI_NOTE_ON, EventAt(idx).raw[2], EventAt(idx).raw[3]>>
               /\ EventAt(idx).raw[2] % 128 = n

\* a step of the program out of poll while input is unread: the matcher ran
\* (or poll or the clock failed)
MatcherStep == pc = "poll" /\ inq # <<>> /\ inputs_sent' = inputs_sent

\* the matcher has read the bytes that complete its 3-byte message
CompletesMessage == notes_waiting # {} /\ Len(inq) - Len(inq') = bytes_to_read

\* C27 (matcher): a complete input message with status 0x90 is answered by
\* one write of (0x80, its note byte, its velocity byte) and clears the
\* pending entry of its note; every other run of the matcher leaves the
\* pending set and the output alone, and with nothing pending reads no byte
C27_MatcherEffect ==
    MatcherStep =>
        /\ notes_waiting = {} => inq' = inq
        /\ IF CompletesMessage /\ Assembled[1] = MIDI_NOTE_ON
           THEN \E cnt \in 0..3 :
                   /\ out' = Append(out, Write("mirror", -1,
                                               <<MIDI_NOTE_OFF, Assembled[2], Assembled[3]>>,
                                               cnt))
                   /\ cnt = 3 => notes_waiting' = notes_waiting \ {Assembled[2] % 128}
                   /\ cnt < 3 => notes_waiting' = notes_waiting /\ pc' = "exit"
           ELSE out' = out /\ notes_waiting' = notes_waiting

\* C27 (entries cleared): during playback a pending entry is cleared only
\* by the matcher
C27_ClearedByMatcher ==
    (pc # "play" /\ notes_waiting \ notes_waiting' # {}) => MatcherStep /\ CompletesMessage

\* C27: a pending entry is set only by the light-on routine for an event
\* with status 0x90 and that note, and cleared only when the matcher has
\* assembled a 3-byte message with status 0x90 and that note, which it
\* mirrors as one Note-Off; nothing else changes the pending set or, in the
\* matcher, the output
C27_PendingUpdates ==
    /\ [][C27_SetByLightOn]_vars
    /\ [][C27_MatcherEffect]_vars
    /\ [][C27_ClearedByMatcher]_vars

(* ---------------------------------------------------------------------- *)
(* Input framing across waits (FrameSpec)                                 *)
(* ---------------------------------------------------------------------- *)
\* track events of the files of FrameSpec: notes on channels 1 and 2, at
\* the tick of the event before them and 5 ticks later
FrameMsgs ==
    { <<0, 144, 60, 100>>,
      <<0, 145, 64, 90>>,
      <<5, 144, 62, 100>>,
      <<5, 129, 64, 0>> }

\* the events of a track
FrameMaxMsgs == 3

FrameFiles == {OneTrackFile(96, a) : a \in Bodies(FrameMsgs, FrameMaxMsgs)}

\* the player presses a lit key, and the Note-On goes out byte by byte:
\* its status byte has arrived, the note and the velocity are on their way
PressSlowly ==
    /\ pc = "poll"
    /\ inq = <<>>
    /\ wire = <<>>
    /\ inputs_sent < MaxInputs
    /\ \E n \in notes_waiting :
          /\ inq' = <<MIDI_NOTE_ON>>
          /\ wire' = <<n, 100>>
    /\ inputs_sent' = inputs_sent + 1
    /\ UNCHANGED <<file, dry_run, dev, parseVars, playVars, clock, faults>>

\* the next byte of the message arrives while the scheduler is in poll
ByteArrives ==
    /\ pc = "poll"
    /\ wire # <<>>
    /\ inq' = Append(inq, Head(wire))
    /\ wire' = Tail(wire)
    /\ UNCHANGED <<file, dry_run, dev, parseVars, playVars, clock, inputs_sent, faults>>

FrameInit == InitWith(FrameFiles, {FALSE}, MaxFaults)

FrameNext ==
    \/ ParseHeader
    \/ FindTrack
    \/ NextEvent
    \/ TrackEnd
    \/ Sort
    \/ StartPlayback
    \/ RefillLights
    \/ EnterWait
    \/ PollTimeout
    \/ PollInput
    \/ ApplyEvent
    \/ Finish
    \/ PressSlowly
    \/ ByteArrives
    \/ CloseDevice

\* playback without failures, with a player who presses the keys that are
\* lit, whose bytes may arrive at any time
FrameSpec == FrameInit /\ [][FrameNext]_vars

\* the Note-Off mirrors written so far
Mirrors == {k \in 1..Len(out) : out[k].kind = "mirror"}

\* C28 (state part): the counter stays in 1..3 while a wait is going on,
\* and once every byte the player sent has been read, every key press has
\* been recognised and mirrored
C28_PressesRecognised ==
    /\ pc = "poll" => bytes_to_read \in 1..3
    /\ (pc \in {"loop", "budget", "poll", "apply"} /\ inq = <<>> /\ wire = <<>>) =>
           Cardinality(Mirrors) = inputs_sent

\* C28 (step part): a wait that follows one that read a part of a message
\* starts with the counter the earlier wait left
C28_KeptAcrossWaits ==
    (pc = "budget" /\ pc' = "poll" /\ i > 0 /\ bytes_to_read \in 1..2) =>
        bytes_to_read' = bytes_to_read

\* C28: when a wait returns after the matcher has read part of a 3-byte
\* message, the next wait goes on with the kept bytes and counter, so a
\* channel-1 Note-On is recognised whatever the interleaving of byte
\* arrivals and timeouts
C28_InputFraming == [](C28_PressesRecognised) /\ [][C28_KeptAcrossWaits]_vars

====
